---- MODULE Spec2Model ----
(***************************************************************************)
(* Model of src/src/battle_pack/mod.rs: the three entry points unpack,     *)
(* repack and allow_all_flying.                                            *)
(*                                                                         *)
(* A file is a sequence of bytes; the byte at file offset o is f[o + 1].   *)
(* A file name is a sequence of characters, each a Unicode scalar value    *)
(* (the string to_string_lossy returns); "s" is 115, "0" is 48.            *)
(***************************************************************************)
EXTENDS Integers, Sequences, FiniteSets, TLC

VARIABLES
    op,           \* entry point this process runs: "patch", "unpack", "repack", "roundtrip"
    pc,           \* position of the process inside the entry point
    exitcode,     \* process exit status once it has terminated (0 while running)
    failkind,     \* kind of the failure that ended the process ("none" if none)
    msgs,         \* messages printed on stdout, in order
    \* ---- allow_all_flying
    file,         \* bytes of the battle pack opened read/write
    file0,        \* bytes of the battle pack before the first run
    file1,        \* bytes of the battle pack when the current run started
    run,          \* number of the current run of allow_all_flying on the file
    equip_array,  \* located start of the equipment array (None before location)
    rec,          \* value of the loop variable a (line 134) the loop reached last
    \* ---- unpack / repack
    container,    \* sections of the battle pack read by unpack, in index order
    dir,          \* directory: sequence of entries in walk order
    i,            \* loop variable of unpack / position in the entry list
    entries,      \* repack: filtered, sorted entries
    all_data,     \* repack: buffers read so far
    outfile,      \* repack: the output container
    written       \* repack: buffers handed to write_section, in call order

patchVars == <<file, file0, file1, run, equip_array, rec>>
packVars == <<container, dir, i, entries, all_data, outfile, written>>
vars == <<op, pc, exitcode, failkind, msgs, file, file0, file1, run, equip_array,
          rec, container, dir, i, entries, all_data, outfile, written>>

None == -1

(***************************************************************************)
(* Program constants                                                       *)
(***************************************************************************)
EQUIPMENT_SIGNATURE_SHORT == <<68, 113>>
EQUIPMENT_SIGNATURE == <<68, 113, 0>>
OFFSET_FROM_SIGNATURE_MUT == 8 - 1
OFFSET_FROM_SIGNATURE == 8
FLYING_FLAG_OFFSET == 7
EQUIPMENT_STRUCT_SIZE == 52
\* last value of the range 0usize..=199
LAST_RECORD == 199
\* the literal 0b100
FLYING_MASK == 4

(***************************************************************************)
(* Bit operations on bytes                                                 *)
(***************************************************************************)
RECURSIVE BitOr(_, _)
BitOr(a, b) ==
    IF a = 0 THEN b
    ELSE IF b = 0 THEN a
    ELSE (IF a % 2 = 1 \/ b % 2 = 1 THEN 1 ELSE 0) + 2 * BitOr(a \div 2, b \div 2)

RECURSIVE BitXor(_, _)
BitXor(a, b) ==
    IF a = 0 THEN b
    ELSE IF b = 0 THEN a
    ELSE (IF a % 2 # b % 2 THEN 1 ELSE 0) + 2 * BitXor(a \div 2, b \div 2)

RECURSIVE BitAnd(_, _)
BitAnd(a, b) ==
    IF a = 0 \/ b = 0 THEN 0
    ELSE (IF a % 2 = 1 /\ b % 2 = 1 THEN 1 ELSE 0) + 2 * BitAnd(a \div 2, b \div 2)

(***************************************************************************)
(* utils::locate_signature: offset of the first occurrence of sig in f, or *)
(* None.                                                                   *)
(***************************************************************************)
\* sig occurs in f at offset o
MatchAt(f, sig, o) == \A k \in 1..Len(sig) : f[o + k] = sig[k]

locate_signature(f, sig) ==
    LET n == Len(f)
        m == Len(sig)
    IN  IF \E o \in 0..(n - m) : MatchAt(f, sig, o)
        THEN CHOOSE o \in 0..(n - m) :
                 /\ MatchAt(f, sig, o)
                 /\ \A p \in 0..(o - 1) : ~MatchAt(f, sig, p)
        ELSE None

(***************************************************************************)
(* allow_all_flying, lines 126-139                                         *)
(***************************************************************************)
\* line 127: Some(loc) => loc + OFFSET_FROM_SIGNATURE
EquipArray(loc) == loc + OFFSET_FROM_SIGNATURE

\* line 134: a * EQUIPMENT_STRUCT_SIZE + equip_array + FLYING_FLAG_OFFSET
FlagOffset(a, base) == a * EQUIPMENT_STRUCT_SIZE + base + FLYING_FLAG_OFFSET

\* line 138: byte | 0b100
PatchByteToggle(byte) == BitXor(byte, FLYING_MASK)
PatchByte(byte) == BitOr(byte, FLYING_MASK)

\* lines 137-138: the write lands where the second seek put the cursor.  Without
\* that seek it would land one past the byte read_u8 consumed.
WriteOffsetNoSeek(id) == id + 1
WriteOffset(id) == id

\* line 136: read_u8 fails with UnexpectedEof at or past the end of the file
ReadHitsEofNever(f, id) == FALSE
ReadHitsEof(f, id) == id >= Len(f)

\* line 136: the byte read_u8 returns
ReadByte(f, id) == IF id < Len(f) THEN f[id + 1] ELSE 0

\* line 138: write_u8 at offset o; a write past the end extends the file
WriteAt(f, o, b) ==
    IF o < Len(f) THEN [f EXCEPT ![o + 1] = b]
    ELSE f \o [j \in 1..(o - Len(f)) |-> 0] \o <<b>>

\* the calls of lines 135-138 that can fail, in program order
IoFaults == {"seek1", "read", "seek2", "write"}

\* the message of the .expect(..) that panics
PanicMsg(fault) ==
    CASE fault = "read" -> "Reading file"
      [] fault = "write" -> "Writing file"
      [] OTHER -> "Seeking file"

\* the failure the environment injects: call op of the iteration for record rec
NoFault == [rec |-> None, op |-> "none"]

\* lines 135-138 for record a: the state of the loop is the file, the call that
\* failed ("none" while none has) and the record handled last; once a call has
\* failed the process has panicked and no later iteration runs
PatchRecord(st, a, base, fault) ==
    IF st.failed # "none" THEN st
    ELSE LET id == FlagOffset(a, base)
             inject == IF fault.rec = a THEN fault.op ELSE "none"
             failed == IF inject = "seek1" THEN "seek1"
                       ELSE IF inject = "read" \/ ReadHitsEof(st.file, id) THEN "read"
                       ELSE inject
         IN  IF failed # "none"
             THEN [file |-> st.file, failed |-> failed, rec |-> a]
             ELSE [file |-> WriteAt(st.file, WriteOffset(id), PatchByte(ReadByte(st.file, id))),
                   failed |-> "none", rec |-> a]

\* line 134: the iterations for the records lo..hi, in ascending order (the
\* range is halved only to keep the evaluation shallow)
RECURSIVE PatchRecords(_, _, _, _, _)
PatchRecords(st, lo, hi, base, fault) ==
    IF lo > hi THEN st
    ELSE IF lo = hi THEN PatchRecord(st, lo, base, fault)
    ELSE LET mid == (lo + hi) \div 2
             first == PatchRecords(st, lo, mid, base, fault)
         IN  IF first.failed # "none" THEN first
             ELSE PatchRecords(first, mid + 1, hi, base, fault)

\* exit status of a process that panicked
PANIC_STATUS == 101

\* the status the parent sees for std::process::exit(c)
ExitStatus(c) == c % 256

\* lines 119-125: the file could not be opened
EXIT_PATCH_OPEN == -1
\* line 130
EXIT_NO_SIGNATURE == 7

MSG_LOCATED == "Located appropriate section."
MSG_PATCHED == "Made all weapons in battle pack able to hit flying enemies."

(***************************************************************************)
(* Bounds of the model                                                     *)
(***************************************************************************)
\* largest offset at which the modelled files hold the signature
MaxSigOffset == 3
\* largest number of bytes that follow the last record's flag byte
MaxSlack == 2
\* number of runs of allow_all_flying on the same file
MaxRuns == 2

(***************************************************************************)
(* The battle packs the patch is run on                                    *)
(***************************************************************************)
\* the bytes the modelled files hold where they hold the signature
SigBytes == <<68, 113, 0>>

\* offset of the flag byte of record a of an array whose signature is at loc
FlagAt(loc, a) == loc + 8 + a * 52 + 7

\* length of the shortest file that holds all 200 records
FullLen(loc) == FlagAt(loc, 199) + 1

Patterns == {"zero", "ones", "ramp", "trap", "dup"}

\* the byte at offset o of the file with the signature at loc (None: nowhere)
PatternByte(loc, pat, o) ==
    LET d == o - FlagAt(IF loc = None THEN 0 ELSE loc, 0)
        r == d % 52
    IN  IF loc # None /\ o >= loc /\ o < loc + 3 THEN SigBytes[o - loc + 1]
        ELSE CASE pat = "zero" -> 0
               [] pat = "ones" -> 255
               [] pat = "ramp" -> (o * 7 + 3) % 256
               \* 64 113 0 at every flag byte: the patch turns it into the signature
               [] pat = "trap" -> IF d >= 0 /\ r = 0 THEN 64
                                  ELSE IF d >= 0 /\ r = 1 THEN 113
                                  ELSE IF d >= 0 /\ r = 2 THEN 0
                                  ELSE IF loc = None THEN (<<68, 113, 1>>)[(o % 3) + 1]
                                  ELSE 1
               \* later occurrences: one whose 113 is a flag byte, one the patch misses
               [] pat = "dup" -> IF d >= 51 /\ d <= 53 /\ loc # None THEN SigBytes[d - 50]
                                 ELSE IF d >= 80 /\ d <= 82 /\ loc # None
                                      THEN SigBytes[d - 79]
                                 ELSE 2

PatchFile(loc, pat, len) ==
    SubSeq([j \in 1..len |-> PatternByte(loc, pat, j - 1)], 1, len)

PatchFiles ==
    {PatchFile(0, pat, FullLen(0)) : pat \in Patterns}
    \cup {PatchFile(MaxSigOffset, pat, FullLen(MaxSigOffset) + MaxSlack) :
            pat \in {"ramp", "trap"}}
    \cup {PatchFile(loc, "ramp", FlagAt(loc, k)) :
            loc \in {0, MaxSigOffset}, k \in {0, 1, 2}}
    \cup {PatchFile(0, "trap", FlagAt(0, 199))}
    \cup {PatchFile(None, pat, len) :
            pat \in {"zero", "ramp", "trap"}, len \in {0, 2, 3, 40 + MaxSlack}}
    \cup {PatchFile(None, "dup", FullLen(0) + 60)}

\* the records at which the environment may fail a seek, a read or a write
FaultRecords == {0, 1, 100, 199}

Faults == {[rec |-> r, op |-> o] : r \in FaultRecords, o \in IoFaults}

(***************************************************************************)
(* The process                                                             *)
(***************************************************************************)
Terminate(code, kind) ==
    /\ pc' = "exited"
    /\ exitcode' = ExitStatus(code)
    /\ failkind' = kind

InitPatch ==
    /\ op = "patch"
    /\ pc = "start"
    /\ exitcode = 0
    /\ failkind = "none"
    /\ msgs = <<>>
    /\ file \in PatchFiles
    /\ file0 = file
    /\ file1 = file
    /\ run = 1
    /\ equip_array = None
    /\ rec = 0
    /\ container = <<>>
    /\ dir = <<>>
    /\ i = 0
    /\ entries = <<>>
    /\ all_data = <<>>
    /\ outfile = <<>>
    /\ written = <<>>

\* lines 117-125
PatchOpen ==
    /\ op = "patch" /\ pc = "start"
    /\ \E ok \in BOOLEAN :
        IF ok THEN /\ pc' = "locate"
                   /\ UNCHANGED <<exitcode, failkind>>
        ELSE Terminate(EXIT_PATCH_OPEN, "open")
    /\ UNCHANGED <<op, msgs, patchVars, packVars>>

\* lines 126-133
PatchLocate ==
    /\ op = "patch" /\ pc = "locate"
    /\ LET loc == locate_signature(file, EQUIPMENT_SIGNATURE)
       IN  IF loc = None
           THEN /\ Terminate(EXIT_NO_SIGNATURE, "nosig")
                /\ UNCHANGED <<msgs, equip_array>>
           ELSE /\ equip_array' = EquipArray(loc)
                /\ msgs' = Append(msgs, MSG_LOCATED)
                /\ pc' = "patch"
                /\ UNCHANGED <<exitcode, failkind>>
    /\ UNCHANGED <<op, file, file0, file1, run, rec, packVars>>

\* lines 134-141: the loop, then the success message and the return; the
\* environment fails at most one of the loop's calls
PatchLoop ==
    /\ op = "patch" /\ pc = "patch"
    /\ \E fault \in Faults \cup {NoFault} :
        LET r == PatchRecords([file |-> file, failed |-> "none", rec |-> 0],
                              0, LAST_RECORD, equip_array, fault)
        IN  /\ file' = r.file
            /\ rec' = r.rec
            /\ IF r.failed # "none"
               THEN /\ pc' = "panicked"
                    /\ exitcode' = PANIC_STATUS
                    /\ failkind' = PanicMsg(r.failed)
                    /\ UNCHANGED msgs
               ELSE /\ pc' = "done"
                    /\ msgs' = Append(msgs, MSG_PATCHED)
                    /\ UNCHANGED <<exitcode, failkind>>
    /\ UNCHANGED <<op, file0, file1, run, equip_array, packVars>>

\* the user runs allow_all_flying again on the patched file
PatchRerun ==
    /\ op = "patch" /\ pc = "done" /\ run < MaxRuns
    /\ run' = run + 1
    /\ file1' = file
    /\ pc' = "start"
    /\ msgs' = <<>>
    /\ equip_array' = None
    /\ rec' = 0
    /\ UNCHANGED <<op, exitcode, failkind, file, file0, packVars>>

NextPatch == PatchOpen \/ PatchLocate \/ PatchLoop \/ PatchRerun

SpecPatch == InitPatch /\ [][NextPatch]_vars

(***************************************************************************)
(* Properties of allow_all_flying                                          *)
(***************************************************************************)
\* sig occurs somewhere in f
SigOccurs(f, sig) ==
    LET n == Len(f)
        m == Len(sig)
    IN  \E o \in 0..(n - m) : MatchAt(f, sig, o)

\* the byte positions the patch is to change, for an array starting at base
ClaimFlagOffsets(base) == {base + a * 52 + 7 : a \in 0..199}

\* C1: if the signature [68, 113, 0] occurs nowhere in the file, the run ends
\* with the signature-not-found outcome (exit status 7) and the file is never
\* modified; nothing is written before the lookup has returned a location.
C1_NoSignatureNoWrite ==
    op = "patch" =>
        /\ pc \in {"start", "locate"} => file = file1
        /\ ~SigOccurs(file1, <<68, 113, 0>>) =>
              /\ file = file1
              /\ pc \in {"start", "locate", "exited"}
              /\ MSG_LOCATED \notin {msgs[k] : k \in DOMAIN msgs}
              /\ pc = "exited" /\ failkind # "open" =>
                    failkind = "nosig" /\ exitcode = 7

C1_Witness ==
    /\ op = "patch" /\ pc = "exited" /\ failkind = "nosig" /\ exitcode = 7
    /\ ~SigOccurs(file1, <<68, 113, 0>>)
    /\ SigOccurs(file1, <<68, 113>>)
    /\ file = file0

\* C2: a second run on the result of a completed run leaves the file
\* byte-identical, and the first occurrence of the signature is at the same
\* offset before and after a patch.
C2_Idempotent ==
    op = "patch" =>
        /\ run >= 2 => file = file1
        /\ pc = "done" =>
              locate_signature(file, <<68, 113, 0>>) = locate_signature(file0, <<68, 113, 0>>)

C2_Witness ==
    /\ op = "patch" /\ run = 2 /\ pc = "done"
    /\ file # file0
    /\ file = file1
    /\ MatchAt(file, <<68, 113, 0>>, 15) /\ ~MatchAt(file0, <<68, 113, 0>>, 15)

\* C3: a completed patch leaves the file length unchanged, changes no byte
\* outside the 200 flag positions base + i*52 + 7 (base the located start of
\* the array), and in a flag byte changes no bit other than the mask bit 0b100.
C3_Frame ==
    (op = "patch" /\ pc = "done") =>
        LET flags == ClaimFlagOffsets(equip_array)
        IN  /\ Len(file) = Len(file1)
            /\ Cardinality(flags) = 200
            /\ \A o \in 0..(Len(file1) - 1) :
                  IF o \in flags
                  THEN BitAnd(file[o + 1], 251) = BitAnd(file1[o + 1], 251)
                  ELSE file[o + 1] = file1[o + 1]

C3_Witness ==
    /\ op = "patch" /\ pc = "done" /\ run = 1
    /\ file # file1
    /\ Len(file) > FullLen(MaxSigOffset)
    /\ \E a \in 0..199 :
          LET o == FlagAt(MaxSigOffset, a)
          IN  file1[o + 1] > 8 /\ file[o + 1] = file1[o + 1] + 4

\* C4: after a completed patch the flag byte of each record i in 0..199, at
\* base + i*52 + 7 with base the first occurrence of the signature plus 8, is
\* its previous value OR 0b100; the 200 positions are pairwise distinct.
C4_FlagsSet ==
    (op = "patch" /\ pc = "done") =>
        LET base == locate_signature(file1, <<68, 113, 0>>) + 8
        IN  /\ \A a \in 0..199 :
                  file[base + a * 52 + 7 + 1] = BitOr(file1[base + a * 52 + 7 + 1], 4)
            /\ \A a, b \in 0..199 : a # b => base + a * 52 + 7 # base + b * 52 + 7

C4_Witness ==
    /\ op = "patch" /\ pc = "done" /\ run = 1
    /\ locate_signature(file1, <<68, 113, 0>>) = MaxSigOffset
    /\ file[FlagAt(MaxSigOffset, 199) + 1] = file1[FlagAt(MaxSigOffset, 199) + 1] + 4

\* C9: a patch completes all 200 records or aborts at the first failing seek,
\* read or write: after a failure at record k the records before k hold their
\* patched value, the records after k are untouched, nothing more is read or
\* written and the success message is not printed.
C9_AbortNoRollback ==
    op = "patch" =>
        LET base == equip_array
        IN  /\ pc = "panicked" =>
                  /\ exitcode # 0
                  /\ MSG_PATCHED \notin {msgs[k] : k \in DOMAIN msgs}
                  /\ Len(file) = Len(file1)
                  /\ \A a \in 0..199 :
                        LET o == base + a * 52 + 7
                        IN  o < Len(file1) =>
                              /\ a < rec => file[o + 1] = BitOr(file1[o + 1], 4)
                              /\ a > rec => file[o + 1] = file1[o + 1]
                  /\ ~ENABLED NextPatch
            /\ pc = "done" =>
                  /\ Len(file1) > base + 199 * 52 + 7
                  /\ MSG_PATCHED = msgs[Len(msgs)]

C9_Witness ==
    /\ op = "patch" /\ pc = "panicked" /\ failkind = "Reading file"
    /\ rec = 199
    /\ FlagAt(0, 199) = Len(file)
    /\ file # file1

(***************************************************************************)
(* File names                                                              *)
(***************************************************************************)
\* the characters "0" .. "9"
Digits == <<48, 49, 50, 51, 52, 53, 54, 55, 56, 57>>

IsDigit(c) == \E d \in 1..10 : Digits[d] = c

DigitValue(c) == (CHOOSE d \in 1..10 : Digits[d] = c) - 1

\* the decimal digits of n, without padding
RECURSIVE Decimal(_)
Decimal(n) ==
    IF n < 10 THEN <<Digits[n + 1]>>
    ELSE Append(Decimal(n \div 10), Digits[(n % 10) + 1])

\* "{:02}": at least two digits, padded with zeros on the left
Fmt02(n) == IF n < 10 THEN <<Digits[1]>> \o Decimal(n) ELSE Decimal(n)

\* "section_"
NAME_PREFIX == <<115, 101, 99, 116, 105, 111, 110, 95>>
\* ".bin"
NAME_SUFFIX == <<46, 98, 105, 110>>

\* line 48: format!("section_{:02}.bin", i)
SectionFileName(n) == NAME_PREFIX \o Fmt02(n) \o NAME_SUFFIX

\* the result of a failed parse
ParseErr == -1

RECURSIVE DecimalValue(_)
DecimalValue(ds) ==
    IF Len(ds) = 0 THEN 0
    ELSE 10 * DecimalValue(SubSeq(ds, 1, Len(ds) - 1)) + DigitValue(ds[Len(ds)])

\* u8::from_str: an optional "+" (43), then one or more decimal digits, at
\* most 255; a lone "+" or "-" (45) is an error like every other non-digit
ParseU8(str) ==
    IF Len(str) = 0 THEN ParseErr
    ELSE IF str[1] \in {43, 45} /\ Len(str) = 1 THEN ParseErr
    ELSE LET ds == IF str[1] = 43 THEN Tail(str) ELSE str
         IN  IF \A k \in 1..Len(ds) : IsDigit(ds[k])
             THEN IF DecimalValue(ds) > 255 THEN ParseErr ELSE DecimalValue(ds)
             ELSE ParseErr

\* str.ends_with(suffix)
EndsWith(str, suffix) ==
    /\ Len(str) >= Len(suffix)
    /\ SubSeq(str, Len(str) - Len(suffix) + 1, Len(str)) = suffix

\* char::len_utf8: the number of bytes of the UTF-8 encoding of a character
Utf8Len(c) ==
    IF c < 128 THEN 1
    ELSE IF c < 2048 THEN 2
    ELSE IF c < 65536 THEN 3
    ELSE 4

\* str.len(): the length of a string in bytes
RECURSIVE ByteLen(_)
ByteLen(str) ==
    IF Len(str) = 0 THEN 0 ELSE Utf8Len(Head(str)) + ByteLen(Tail(str))

\* str.is_char_boundary(b): byte offset b is the start of a character or the
\* end of the string
IsCharBoundary(str, b) ==
    \E k \in 0..Len(str) : ByteLen(SubSeq(str, 1, k)) = b

\* the number of characters before the character boundary at byte offset b
CharsBefore(str, b) ==
    CHOOSE k \in 0..Len(str) : ByteLen(SubSeq(str, 1, k)) = b

\* &str[lo..hi] for character boundaries lo <= hi
ByteSlice(str, lo, hi) ==
    SubSeq(str, CharsBefore(str, lo) + 1, CharsBefore(str, hi))

\* lines 89-95: the filter closure on the file name. It accepts the name,
\* rejects it, or panics: split_at(8) and &end[0..2] panic when the byte
\* offset is not a character boundary.
FileNameFilter(name) ==
    IF ByteLen(name) # 14 THEN "reject"
    ELSE IF ~IsCharBoundary(name, 8) THEN "panic"
    ELSE LET start == ByteSlice(name, 0, 8)
             end   == ByteSlice(name, 8, ByteLen(name))
         IN  IF start # NAME_PREFIX \/ ~EndsWith(end, NAME_SUFFIX) THEN "reject"
             ELSE IF ~IsCharBoundary(end, 2) THEN "panic"
             ELSE IF ParseU8(ByteSlice(end, 0, 2)) = ParseErr THEN "reject"
             ELSE "accept"

\* line 98: the sort key, u8::from_str(&name[8..10]).unwrap()
SortKey(e) == ParseU8(ByteSlice(e.name, 8, 10))

\* lines 88-95: the entry is a file and its name passes the filter
EntryAccepted(e) == e.is_file /\ FileNameFilter(e.name) = "accept"

\* lines 88-95: the entry is a file and the filter on its name panics
EntryPanics(e) == e.is_file /\ FileNameFilter(e.name) = "panic"

\* lines 86-97: the accepted entries, in the order the walk yields them
FilterEntries(es) == SelectSeq(es, EntryAccepted)

\* the place a stable sort by key gives the k-th entry of es
SortedPlace(keys, k) ==
    Cardinality({j \in DOMAIN keys : keys[j] < keys[k] \/ (keys[j] = keys[k] /\ j <= k)})

\* line 98: entries.sort_by_key(..), a stable sort
SortByKeyOmitted(es) == es
SortByKey(es) ==
    LET n == Len(es)
        keys == SubSeq([k \in 1..n |-> SortKey(es[k])], 1, n)
        place == SubSeq([k \in 1..n |-> SortedPlace(keys, k)], 1, n)
    IN  [p \in 1..n |-> es[CHOOSE k \in 1..n : place[k] = p]]

(***************************************************************************)
(* BattlePackReader, as unpack uses it                                     *)
(***************************************************************************)
section_count(c) == Len(c)
section_begin_to_end(c, n) == c[n + 1]

(***************************************************************************)
(* Exit statuses                                                           *)
(***************************************************************************)
\* unpack
EXIT_MKDIR == 1
EXIT_OPEN == 1
EXIT_PARSE == 2
EXIT_CREATE == 3
EXIT_WRITE_MUT == 4 - 2
EXIT_WRITE == 4
EXIT_READ == 2
\* repack
EXIT_NO_INPUT_DIR == 1
EXIT_CREATE_OUTPUT == 1
EXIT_WALK == 1
EXIT_INPUT == 1
EXIT_WRITER == 2
EXIT_SECTION == 2

\* error_abort!(code, ..): report and end the process with the status
ErrorAbort(code, kind) == Terminate(code, kind)

(***************************************************************************)
(* Bounds of the unpack and repack runs                                    *)
(***************************************************************************)
\* largest number of sections of an unpacked battle pack
MaxSections == 101
\* largest number of entries of a repacked directory
MaxEntries == 3

(***************************************************************************)
(* Inputs of unpack and repack                                             *)
(***************************************************************************)
\* the bytes of section n: section 1 is empty, the others hold one or two bytes
SectionData(n) ==
    IF n = 1 THEN <<>>
    ELSE [k \in 1..(1 + (n % 2)) |-> (n + k) % 256]

Container(n) == [k \in 1..n |-> SectionData(k - 1)]

ContainerSizes == {0, 1, 3, MaxSections - 1, MaxSections}

Entry(name, is_file, data) == [name |-> name, is_file |-> is_file, data |-> data]

Named(mid, suffix) == NAME_PREFIX \o mid \o suffix

\* directory entries a repacked directory may hold
EntryPool ==
    { \* section_00.bin, section_01.bin, section_10.bin
      Entry(Named(<<48, 48>>, NAME_SUFFIX), TRUE, <<10>>),
      Entry(Named(<<48, 49>>, NAME_SUFFIX), TRUE, <<11, 11>>),
      Entry(Named(<<49, 48>>, NAME_SUFFIX), TRUE, <<>>),
      \* section_+1.bin, section_-1.bin
      Entry(Named(<<43, 49>>, NAME_SUFFIX), TRUE, <<13>>),
      Entry(Named(<<45, 49>>, NAME_SUFFIX), TRUE, <<14>>),
      \* section_2.bin, section_003.bin, section_0a.bin
      Entry(Named(<<50>>, NAME_SUFFIX), TRUE, <<15>>),
      Entry(Named(<<48, 48, 51>>, NAME_SUFFIX), TRUE, <<16>>),
      Entry(Named(<<48, 97>>, NAME_SUFFIX), TRUE, <<17>>),
      \* section_04.dat, Section_05.bin
      Entry(Named(<<48, 52>>, <<46, 100, 97, 116>>), TRUE, <<18>>),
      Entry(<<83>> \o Tail(Named(<<48, 53>>, NAME_SUFFIX)), TRUE, <<19>>),
      \* a directory named section_06.bin
      Entry(Named(<<48, 54>>, NAME_SUFFIX), FALSE, <<>>),
      \* section_<U+00E9>.bin: 14 bytes, the index is one 2-byte character
      Entry(Named(<<233>>, NAME_SUFFIX), TRUE, <<20>>),
      \* sectio<U+20AC>1.bin: 14 bytes, byte 8 inside the 3-byte character
      Entry(<<115, 101, 99, 116, 105, 111, 8364, 49>> \o NAME_SUFFIX, TRUE, <<21>>),
      \* secti<U+1F600>1.bin: 14 bytes, byte 8 inside the 4-byte character
      Entry(<<115, 101, 99, 116, 105, 128512, 49>> \o NAME_SUFFIX, TRUE, <<22>>) }

\* the orders in which a walk can yield up to MaxEntries entries of the pool
Walks ==
    UNION { { w \in [1..k -> EntryPool] : \A a, b \in 1..k : a # b => w[a] # w[b] } :
            k \in 0..MaxEntries }

\* every order of the entries of es
AllOrders(es) ==
    LET n == Len(es)
    IN  { [k \in 1..n |-> es[p[k]]] :
            p \in {q \in [1..n -> 1..n] : \A a, b \in 1..n : a # b => q[a] # q[b]} }


NoOutput == [created |-> FALSE, count |-> None, sections |-> <<>>, torn |-> FALSE]

\* the strict prefixes a failed write_all can leave behind
StrictPrefixes(data) == {SubSeq(data, 1, k) : k \in 0..(Len(data) - 1)}

\* the directory after File::create(name) and the write of data to the file
PutFile(d, name, data) ==
    IF \E k \in 1..Len(d) : d[k].name = name
    THEN [k \in 1..Len(d) |-> IF d[k].name = name THEN Entry(name, TRUE, data) ELSE d[k]]
    ELSE Append(d, Entry(name, TRUE, data))

InitPack ==
    /\ pc = "start"
    /\ exitcode = 0
    /\ failkind = "none"
    /\ msgs = <<>>
    /\ file = <<>>
    /\ file0 = <<>>
    /\ file1 = <<>>
    /\ run = 1
    /\ equip_array = None
    /\ rec = 0
    /\ i = 0
    /\ entries = <<>>
    /\ all_data = <<>>
    /\ outfile = NoOutput
    /\ written = <<>>
    /\ \/ /\ op = "unpack"
          /\ container \in {Container(n) : n \in ContainerSizes}
          /\ dir = <<>>
       \/ /\ op = "repack"
          /\ container = <<>>
          /\ dir \in Walks

(***************************************************************************)
(* unpack, lines 24-73                                                     *)
(***************************************************************************)
\* lines 28-30
UnpackCreateDir ==
    /\ op = "unpack" /\ pc = "start"
    /\ \E ok \in BOOLEAN :
        IF ok THEN pc' = "u_open" /\ UNCHANGED <<exitcode, failkind>>
        ELSE ErrorAbort(EXIT_MKDIR, "mkdir")
    /\ UNCHANGED <<op, msgs, patchVars, packVars>>

\* lines 32-37
UnpackOpen ==
    /\ op = "unpack" /\ pc = "u_open"
    /\ \E ok \in BOOLEAN :
        IF ok THEN pc' = "u_reader" /\ UNCHANGED <<exitcode, failkind>>
        ELSE ErrorAbort(EXIT_OPEN, "open")
    /\ UNCHANGED <<op, msgs, patchVars, packVars>>

\* lines 39-46: the reader is built; with no section the loop body never runs
UnpackReader ==
    /\ op = "unpack" /\ pc = "u_reader"
    /\ \E ok \in BOOLEAN :
        IF ok THEN /\ pc' = IF section_count(container) = 0 THEN "done" ELSE "u_loop"
                   /\ UNCHANGED <<exitcode, failkind>>
        ELSE ErrorAbort(EXIT_PARSE, "parse")
    /\ i' = 0
    /\ UNCHANGED <<op, msgs, patchVars, container, dir, entries, all_data, outfile, written>>

\* lines 46-71: one iteration of the loop
UnpackSection ==
    /\ op = "unpack" /\ pc = "u_loop"
    /\ LET name == SectionFileName(i)
           data == section_begin_to_end(container, i)
       IN  \/ /\ ErrorAbort(EXIT_CREATE, "create")
              /\ UNCHANGED <<dir, i, msgs>>
           \/ /\ dir' = PutFile(dir, name, <<>>)
              /\ ErrorAbort(EXIT_READ, "read")
              /\ UNCHANGED <<i, msgs>>
           \/ /\ \E part \in StrictPrefixes(data) : dir' = PutFile(dir, name, part)
              /\ msgs' = Append(msgs, "Exporting section")
              /\ ErrorAbort(EXIT_WRITE, "write")
              /\ UNCHANGED i
           \/ /\ dir' = PutFile(dir, name, data)
              /\ msgs' = Append(msgs, "Exporting section")
              /\ IF i + 1 = section_count(container)
                 THEN pc' = "done" /\ UNCHANGED i
                 ELSE i' = i + 1 /\ UNCHANGED pc
              /\ UNCHANGED <<exitcode, failkind>>
    /\ UNCHANGED <<op, patchVars, container, entries, all_data, outfile, written>>

\* the user runs repack on the directory unpack has written
RepackUnpacked ==
    /\ op = "unpack" /\ pc = "done"
    /\ op' = "roundtrip"
    /\ pc' = "start"
    /\ msgs' = <<>>
    /\ i' = 0
    /\ UNCHANGED <<exitcode, failkind, patchVars, container, dir, entries, all_data,
                   outfile, written>>

(***************************************************************************)
(* repack, lines 75-113                                                    *)
(***************************************************************************)
Repacking == op \in {"repack", "roundtrip"}

\* line 76
RepackCheckDir ==
    /\ Repacking /\ pc = "start"
    /\ \E ok \in (IF op = "repack" THEN BOOLEAN ELSE {TRUE}) :
        IF ok THEN pc' = "r_create" /\ UNCHANGED <<exitcode, failkind>>
        ELSE ErrorAbort(EXIT_NO_INPUT_DIR, "nodir")
    /\ UNCHANGED <<op, msgs, patchVars, packVars>>

\* lines 77-78 and 111: File::create of the output
RepackCreate ==
    /\ Repacking /\ pc = "r_create"
    /\ \E ok \in BOOLEAN :
        IF ok THEN /\ pc' = "r_walk"
                   /\ outfile' = [NoOutput EXCEPT !.created = TRUE]
                   /\ UNCHANGED <<exitcode, failkind>>
        ELSE /\ ErrorAbort(EXIT_CREATE_OUTPUT, "create_output")
             /\ UNCHANGED outfile
    /\ UNCHANGED <<op, msgs, patchVars, container, dir, i, entries, all_data, written>>

\* lines 86-98 on one walk: the walk yields the entries in the order of
\* walk and fails at its fail_at-th item (0: it does not fail). The iterator
\* chain is lazy: the items are mapped and filtered one by one, so of the
\* failed item and a panic of the name filter the one that comes first ends
\* the process.
WalkResult(walk, fail_at) ==
    LET yielded == IF fail_at = 0 THEN walk ELSE SubSeq(walk, 1, fail_at - 1)
    IN  IF \E k \in 1..Len(yielded) : EntryPanics(yielded[k])
        THEN [kind |-> "panic", entries |-> <<>>]
        ELSE IF fail_at # 0
        THEN [kind |-> "walk", entries |-> <<>>]
        ELSE [kind |-> "ok", entries |-> SortByKey(FilterEntries(walk))]

\* the sequences that differ from sorted, a sequence of entries in the order
\* of their keys, only in the order of the entries of the same key
TieOrders(sorted) ==
    LET n == Len(sorted)
        keys == SubSeq([k \in 1..n |-> SortKey(sorted[k])], 1, n)
        tied == {k \in 1..n : \E j \in 1..n : j # k /\ keys[j] = keys[k]}
    IN  { [k \in 1..n |-> IF k \in tied THEN sorted[p[k]] ELSE sorted[k]] :
            p \in {q \in [tied -> tied] :
                      /\ \A a, b \in tied : a # b => q[a] # q[b]
                      /\ \A a \in tied : keys[q[a]] = keys[a]} }

\* lines 80-98 on the directory d, whatever the order in which the walk
\* yields its entries (WalkDir is given no sort_by: the file system decides)
\* and wherever it fails: the walk can fail before it has yielded a file; if
\* it does not, a file whose name makes the filter panic ends the process;
\* otherwise the stable sort of line 98 leaves the accepted entries in the
\* order of their keys, those of the same key in the order of the walk.
\* WalkResultsExact compares this with WalkResult on every order.
WalkResults(d) ==
    {[kind |-> "walk", entries |-> <<>>]}
    \cup (IF \E k \in 1..Len(d) : EntryPanics(d[k])
          THEN {[kind |-> "panic", entries |-> <<>>]}
          ELSE {[kind |-> "ok", entries |-> es] :
                  es \in TieOrders(SortByKey(FilterEntries(d)))})

\* the results of lines 80-98 in this run. For a directory handed to repack,
\* dir is in the order in which the walk yields it: Init has drawn that
\* order, every order of Walks. The files unpack has created are held in dir
\* in creation order, and the walk yields them in any order.
WalkOutcomes ==
    IF op = "repack" THEN {WalkResult(dir, fail_at) : fail_at \in 0..(Len(dir) + 1)}
    ELSE WalkResults(dir)

\* lines 79-98: the walk, the filters and the sort
RepackWalk ==
    /\ Repacking /\ pc = "r_walk"
    /\ \E r \in WalkOutcomes :
        IF r.kind = "panic"
        THEN /\ pc' = "panicked"
             /\ exitcode' = PANIC_STATUS
             /\ failkind' = "split_at"
             /\ UNCHANGED entries
        ELSE IF r.kind = "walk"
        THEN /\ ErrorAbort(EXIT_WALK, "walk")
             /\ UNCHANGED entries
        ELSE /\ entries' = r.entries
             /\ pc' = IF Len(entries') = 0 THEN "r_writer" ELSE "r_read"
             /\ UNCHANGED <<exitcode, failkind>>
    /\ i' = 0
    /\ UNCHANGED <<op, msgs, patchVars, container, dir, all_data, outfile, written>>

\* lines 99-105: one iteration of the loop that reads the inputs
RepackRead ==
    /\ Repacking /\ pc = "r_read"
    /\ \E ok \in BOOLEAN :
        IF ok THEN /\ all_data' = Append(all_data, entries[i + 1].data)
                   /\ IF i + 1 = Len(entries)
                      THEN pc' = "r_writer" /\ i' = 0
                      ELSE i' = i + 1 /\ UNCHANGED pc
                   /\ UNCHANGED <<exitcode, failkind>>
        ELSE /\ ErrorAbort(EXIT_INPUT, "input")
             /\ UNCHANGED <<all_data, i>>
    /\ UNCHANGED <<op, msgs, patchVars, container, dir, entries, outfile, written>>

\* line 106: BattlePackWriter::new(all_data.len(), file)
RepackWriter ==
    /\ Repacking /\ pc = "r_writer"
    /\ \E ok \in BOOLEAN :
        IF ok THEN /\ outfile' = [outfile EXCEPT !.count = Len(all_data)]
                   /\ pc' = IF Len(all_data) = 0 THEN "done" ELSE "r_write"
                   /\ UNCHANGED <<exitcode, failkind>>
        ELSE /\ ErrorAbort(EXIT_WRITER, "writer")
             /\ outfile' = [outfile EXCEPT !.torn = TRUE]
    /\ i' = 0
    /\ UNCHANGED <<op, msgs, patchVars, container, dir, entries, all_data, written>>

\* line 108: write_section failed; the error is fatal
SectionWriteFailedIgnored ==
    /\ failkind' = "section"
    /\ outfile' = [outfile EXCEPT !.torn = TRUE]
    /\ IF i + 1 = Len(all_data)
       THEN pc' = "done" /\ UNCHANGED i
       ELSE i' = i + 1 /\ UNCHANGED pc
    /\ UNCHANGED exitcode
SectionWriteFailed ==
    /\ ErrorAbort(EXIT_SECTION, "section")
    /\ outfile' = [outfile EXCEPT !.torn = TRUE]
    /\ UNCHANGED i

\* lines 107-109: one iteration of the loop that writes the sections
RepackWrite ==
    /\ Repacking /\ pc = "r_write"
    /\ written' = Append(written, all_data[i + 1])
    /\ \E ok \in BOOLEAN :
        IF ok THEN /\ outfile' = [outfile EXCEPT !.sections = Append(@, all_data[i + 1])]
                   /\ IF i + 1 = Len(all_data)
                      THEN pc' = "done" /\ UNCHANGED i
                      ELSE i' = i + 1 /\ UNCHANGED pc
                   /\ UNCHANGED <<exitcode, failkind>>
        ELSE SectionWriteFailed
    /\ UNCHANGED <<op, msgs, patchVars, container, dir, entries, all_data>>

NextPack ==
    \/ UnpackCreateDir \/ UnpackOpen \/ UnpackReader \/ UnpackSection \/ RepackUnpacked
    \/ RepackCheckDir \/ RepackCreate \/ RepackWalk \/ RepackRead \/ RepackWriter
    \/ RepackWrite

SpecPack == InitPack /\ [][NextPack]_vars

(***************************************************************************)
(* Properties of unpack and repack                                         *)
(***************************************************************************)
Range(seq) == {seq[k] : k \in DOMAIN seq}

IsPrefix(a, b) == Len(a) <= Len(b) /\ SubSeq(b, 1, Len(a)) = a

\* repack has walked, filtered and sorted the directory
Walked ==
    /\ Repacking
    /\ pc \in {"r_read", "r_writer", "r_write", "done", "exited"}
    /\ failkind \notin {"nodir", "create_output", "walk"}

\* the numeric index in an accepted file name: its ninth and tenth characters
NumericIndex(name) == ParseU8(SubSeq(name, 9, 10))

\* C5: whatever order the walk yields the entries in, repack hands the buffers
\* to write_section sorted by the numeric index in the file name: the k-th
\* call receives the contents of the k-th accepted file in index order.
C5_WritesInIndexOrder ==
    Walked =>
        /\ Range(entries) = {e \in Range(dir) : EntryAccepted(e)}
        /\ Len(entries) = Cardinality(Range(entries))
        /\ \A k \in 1..(Len(entries) - 1) :
              NumericIndex(entries[k].name) <= NumericIndex(entries[k + 1].name)
        /\ Len(written) <= Len(entries)
        /\ \A k \in 1..Len(written) : written[k] = entries[k].data

C5_Witness ==
    /\ op = "repack" /\ pc = "done"
    /\ Len(written) = 3
    /\ Len(dir) = 3
    /\ NumericIndex(dir[1].name) > NumericIndex(dir[2].name)
    /\ NumericIndex(dir[2].name) > NumericIndex(dir[3].name)
    /\ outfile.sections = written

\* 'section_' followed by exactly two decimal digits followed by '.bin'
ConventionName(name) ==
    /\ Len(name) = 14
    /\ SubSeq(name, 1, 8) = NAME_PREFIX
    /\ IsDigit(name[9]) /\ IsDigit(name[10])
    /\ SubSeq(name, 11, 14) = NAME_SUFFIX

\* C6: a regular file of the input directory is repacked if and only if its
\* name is 'section_', two decimal digits, '.bin'; so no two repacked files
\* have the same index.
C6_ExactConvention ==
    Walked =>
        /\ \A e \in Range(dir) :
              e \in Range(entries) <=> (e.is_file /\ ConventionName(e.name))
        /\ \A a, b \in 1..Len(entries) :
              a # b => NumericIndex(entries[a].name) # NumericIndex(entries[b].name)

\* on every directory of at most MaxEntries entries, WalkResults gives the
\* results WalkResult gives over all orders of the entries and all places of
\* the failure
WalkResultsExact ==
    (Repacking /\ pc = "r_walk" /\ Len(dir) <= MaxEntries) =>
        WalkResults(dir) = {WalkResult(walk, fail_at) :
                               walk \in AllOrders(dir), fail_at \in 0..(Len(dir) + 1)}

\* C7: unpack writes section k of an n-section container to section_<k>.bin,
\* and repacking that directory hands the writer exactly the n sections, with
\* count n, in index order.
C7_RoundTrip ==
    /\ (op = "unpack" /\ pc = "done") =>
          /\ Len(dir) = Len(container)
          /\ \A k \in 1..Len(dir) :
                dir[k] = Entry(SectionFileName(k - 1), TRUE, container[k])
    /\ (op = "roundtrip" /\ pc = "done") =>
          /\ written = container
          /\ outfile.count = Len(container)
          /\ outfile.sections = container

\* the failures the claims C8 speaks of
AbortedUnpack == op = "unpack" /\ pc = "exited" /\ failkind \in {"read", "write"}
AbortedRepack == Repacking /\ pc = "exited" /\ failkind \in {"input", "section"}

\* the buffers repack is to write
Intended == [k \in 1..Len(entries) |-> entries[k].data]

\* C8 as stated: after unpack or repack has aborted, no output file exists
\* that holds none or only part of its intended contents.
C8_NoPartialOutput ==
    /\ AbortedUnpack =>
          \A k \in 1..Len(dir) : dir[k].data = container[k]
    /\ AbortedRepack =>
          (outfile.created =>
              /\ ~outfile.torn
              /\ outfile.count = Len(entries)
              /\ outfile.sections = Intended)

\* C8 amended: unpack and repack stop at the first failure; the output of the
\* sections handled before it is complete, and only the file being produced
\* when the failure happened is left empty or partial.
C8_FailFastPrefix ==
    /\ (op \in {"unpack", "repack", "roundtrip"} /\ failkind # "none") =>
          pc \in {"exited", "panicked"} /\ exitcode # 0 /\ ~ENABLED NextPack
    /\ AbortedUnpack =>
          /\ Len(dir) = i + 1
          /\ \A k \in 1..i : dir[k] = Entry(SectionFileName(k - 1), TRUE, container[k])
          /\ dir[i + 1].name = SectionFileName(i)
          /\ IsPrefix(dir[i + 1].data, container[i + 1])
    /\ AbortedRepack =>
          /\ outfile.created
          /\ IsPrefix(outfile.sections, Intended)
          /\ failkind = "input" => outfile.sections = <<>> /\ outfile.count = None
          /\ failkind = "section" => Len(outfile.sections) = i /\ outfile.torn

C8_Witness ==
    /\ AbortedUnpack /\ failkind = "write"
    /\ i = 3
    /\ Len(dir[4].data) = 1
    /\ Len(container[4]) = 2

\* the failure kinds C10 lists
ClaimKinds == {"mkdir", "open", "parse", "read", "write", "nosig"}

\* the statuses with which the code ends the process on a failure of a kind
StatusesOf(kind) ==
    CASE kind = "mkdir" -> {ExitStatus(EXIT_MKDIR)}
      [] kind = "open" -> {ExitStatus(EXIT_OPEN), ExitStatus(EXIT_PATCH_OPEN)}
      [] kind = "parse" -> {ExitStatus(EXIT_PARSE)}
      [] kind = "read" -> {ExitStatus(EXIT_READ)}
      [] kind = "write" -> {ExitStatus(EXIT_WRITE)}
      [] kind = "nosig" -> {ExitStatus(EXIT_NO_SIGNATURE)}

\* C10 as stated: each listed failure ends the process with a non-zero status
\* that no failure of another listed kind ends it with.
C10_DistinctStatuses ==
    (pc = "exited" /\ failkind \in ClaimKinds) =>
        /\ exitcode # 0
        /\ \A k \in ClaimKinds \ {failkind} : exitcode \notin StatusesOf(k)

\* C10 amended: each listed failure ends the process with a non-zero status:
\* 1 for output-directory creation and for container open in unpack, 2 for
\* container parse and for section read, 4 for the export write, 7 for
\* signature-not-found, 255 (exit(-1)) for container open in allow_all_flying.
C10_StatusGroups ==
    (pc = "exited" /\ failkind \in ClaimKinds) =>
        exitcode = CASE failkind = "mkdir" -> 1
                     [] failkind = "open" -> IF op = "patch" THEN 255 ELSE 1
                     [] failkind = "parse" -> 2
                     [] failkind = "read" -> 2
                     [] failkind = "write" -> 4
                     [] failkind = "nosig" -> 7

C10_Witness ==
    /\ op = "unpack" /\ pc = "exited"
    /\ failkind = "read" /\ exitcode = 2
    /\ i = 1

Init == InitPatch \/ InitPack

Next == NextPatch \/ NextPack

Spec == Init /\ [][Next]_vars
====
